---- MODULE Spec2Model ----
(***************************************************************************)
(* Model of src/app.py: a Streamlit form that runs a three-node LangGraph  *)
(* chain (outline -> script -> hashtags) over a ScriptState record, each   *)
(* node making one blocking call to the Groq chat-completion endpoint.     *)
(*                                                                         *)
(* Strings are sequences of tokens.  User text and model text are spelled  *)
(* character by character; a fixed fragment of an f-string is a single     *)
(* token unless str.strip can reach it, in which case its whitespace is    *)
(* spelled character by character as well.  The emoji of the headings and  *)
(* notices are left out of the tokens, the rest of the text is the         *)
(* source's.  A character of ASCII is the character itself; a character    *)
(* beyond ASCII is the token "U+" followed by its four hex digits, so      *)
(* NBSP is "U+00A0" and the ideographic space is "U+3000".                 *)
(***************************************************************************)
EXTENDS Integers, Sequences, FiniteSets, TLC

VARIABLES
    GROQ_API_KEY,  \* os.getenv("GROQ_API_KEY") read once at import
    pc,            \* position of the script run
    topic, duration, tone, platform, language,  \* the form's widget values
    state,         \* the ScriptState threaded through the graph
    requests,      \* HTTP requests posted so far, in order
    trace,         \* call / return / raise events of the client, in order
    responses,     \* what the endpoint did to each call, in order
    script,        \* the string returned by generate_script
    ui             \* display calls of the current script run after the form

vars == <<GROQ_API_KEY, pc, topic, duration, tone, platform, language,
          state, requests, trace, responses, script, ui>>

----------------------------------------------------------------------------
(* Bounds *)

MaxTopicLen == 2
MaxContentLen == 2

----------------------------------------------------------------------------
(* Strings *)

\* the 29 characters str.strip() removes: TAB, LF, VT, FF, CR, FS, GS, RS,
\* US (0x09-0x0D, 0x1C-0x1F, the ones without an escape written as the
\* characters themselves), space, NEL, NBSP, U+1680, U+2000-U+200A,
\* U+2028, U+2029, U+202F, U+205F and U+3000
Whitespace == {"\t", "\n", "", "\f", "\r", "", "", "", "", " ",
               "U+0085", "U+00A0", "U+1680",
               "U+2000", "U+2001", "U+2002", "U+2003", "U+2004", "U+2005",
               "U+2006", "U+2007", "U+2008", "U+2009", "U+200A",
               "U+2028", "U+2029", "U+202F", "U+205F", "U+3000"}

RECURSIVE LStrip(_)
LStrip(s) ==
    IF s = <<>> THEN <<>>
    ELSE IF Head(s) \in Whitespace THEN LStrip(Tail(s)) ELSE s

RECURSIVE RStrip(_)
RStrip(s) ==
    IF s = <<>> THEN <<>>
    ELSE IF s[Len(s)] \in Whitespace THEN RStrip(SubSeq(s, 1, Len(s) - 1)) ELSE s

\* str.strip(): drop leading and trailing whitespace
Strip(s) == RStrip(LStrip(s))

\* truth value of a Python str
Truthy(s) == s # <<>>

Digit(d) == CASE d = 0 -> "0" [] d = 1 -> "1" [] d = 2 -> "2" [] d = 3 -> "3"
              [] d = 4 -> "4" [] d = 5 -> "5" [] d = 6 -> "6" [] d = 7 -> "7"
              [] d = 8 -> "8" [] d = 9 -> "9"

\* str(n) / f"{n}" of a non-negative int
RECURSIVE IntToStr(_)
IntToStr(n) == IF n < 10 THEN <<Digit(n)>>
               ELSE Append(IntToStr(n \div 10), Digit(n % 10))

\* s contains sub as a contiguous run
Contains(s, sub) ==
    \E i \in 1..(Len(s) - Len(sub) + 1) : SubSeq(s, i, i + Len(sub) - 1) = sub

Strings(alphabet, n) == UNION {[1..k -> alphabet] : k \in 0..n}

\* dict.get(key, default)
DictGet(d, key, default) == IF key \in DOMAIN d THEN d[key] ELSE default

----------------------------------------------------------------------------
(* Configuration and the form's choices *)

GROQ_API_URL == <<"https://api.groq.com/openai/v1/chat/completions">>

None == [isNone |-> TRUE, val |-> <<>>]
Some(s) == [isNone |-> FALSE, val |-> s]

\* f"{v}" of an Optional[str]
OptStr(v) == IF v.isNone THEN <<"None">> ELSE v.val

TONES == {<<"Friendly">>, <<"Professional">>, <<"Inspirational">>,
          <<"Humorous">>, <<"Serious">>, <<"Casual">>}
PLATFORMS == {<<>>, <<"Instagram">>, <<"TikTok">>, <<"YouTube">>,
              <<"LinkedIn">>, <<"Facebook">>, <<"Twitter/X">>}
LANGUAGES == {<<"English">>, <<"Hindi">>}
MinDuration == 10
MaxDuration == 600

\* the values the model submits
TopicInputs == Strings({" ", "a"}, MaxTopicLen)
               \cup {<<"\t">>, <<"\t", "a">>, <<"">>, <<"U+00A0", "U+0085">>,
                     <<"U+3000">>, <<"U+2003", "a">>}
FormInputs ==
    {[duration |-> MinDuration, tone |-> <<"Friendly">>, platform |-> <<>>,
      language |-> <<"English">>],
     [duration |-> MaxDuration, tone |-> <<"Serious">>, platform |-> <<"Twitter/X">>,
      language |-> <<"Hindi">>]}
KeyInputs == {None, Some(<<"k">>)}

----------------------------------------------------------------------------
(* What the endpoint can do to one call *)

\* requests.post returns a response with a status; a 200 carries the
\* content of choices[0].message, any other status carries a body text
StubText == <<(<<"OUTLINE">>), (<<"SCRIPT">>), (<<"TAGS">>)>>
Contents(k) == Strings({" ", "x"}, MaxContentLen) \cup {StubText[k], <<"U+3000", "U+2028">>}
Bodies == {<<>>, <<"b", " ">>}
HttpOutcomes(k) ==
    {[kind |-> "http", status |-> 200, text |-> c] : c \in Contents(k)}
    \cup {[kind |-> "http", status |-> s, text |-> b] : s \in {401}, b \in Bodies}
\* requests.post or response.json() raises; text is str(e)
FaultOutcomes == {[kind |-> "fault", status |-> 0, text |-> m] : m \in {<<>>, <<"timeout">>}}
\* the outcomes of the k-th call
Outcomes(k) == HttpOutcomes(k) \cup FaultOutcomes

----------------------------------------------------------------------------
(* call_groq_api *)

BuildRequest(prompt) ==
    [url |-> GROQ_API_URL,
     auth |-> <<"Bearer ">> \o OptStr(GROQ_API_KEY),
     model |-> "llama3-70b-8192",
     system |-> <<"You are a helpful assistant.">>,
     user |-> prompt,
     max_tokens |-> 1024]

\* f"Error: {response.status_code} - {response.text}"
SentinelText(status, text) ==
    <<"Error:", " ">> \o IntToStr(status) \o <<" ", "-", " ">> \o text

call_groq_api_nostrip(o) ==
    IF o.kind = "fault" THEN [raised |-> TRUE, value |-> o.text]
    ELSE IF o.status = 200 THEN [raised |-> FALSE, value |-> o.text]
    ELSE [raised |-> FALSE, value |-> SentinelText(o.status, o.text)]

call_groq_api_raising(o) ==
    IF o.kind = "fault" THEN [raised |-> TRUE, value |-> o.text]
    ELSE IF o.status = 200 THEN [raised |-> FALSE, value |-> Strip(o.text)]
    ELSE [raised |-> TRUE, value |-> SentinelText(o.status, o.text)]

\* the result of call_groq_api given what the endpoint did
call_groq_api(o) ==
    IF o.kind = "fault" THEN [raised |-> TRUE, value |-> o.text]
    ELSE IF o.status = 200 THEN [raised |-> FALSE, value |-> Strip(o.text)]
    ELSE [raised |-> FALSE, value |-> SentinelText(o.status, o.text)]

----------------------------------------------------------------------------
(* The three nodes *)

PlatformMark == "\n    Platform: "

outline_prompt(st) ==
    <<"\n    Create a detailed outline for a ">> \o IntToStr(st.duration)
    \o <<"-second social media script about \"">> \o st.topic
    \o <<"\" in ">> \o st.language
    \o <<".\n    Tone: ">> \o st.tone
    \o <<PlatformMark>> \o DictGet(st, "platform", <<"Any">>)
    \o <<"\n    \n    Provide a structured outline with:\n    1. Hook/Intro (first 5-10 seconds)\n    2. Main content points (middle section)\n    3. Call-to-action (last 5-10 seconds)\n    \n    Consider the platform's audience and format requirements.\n    ">>

script_prompt(st) ==
    <<"\n    Based on this outline: ">> \o st.script_outline
    \o <<"\n    \n    Write a complete ">> \o IntToStr(st.duration)
    \o <<"-second social media script about \"">> \o st.topic
    \o <<"\" in ">> \o st.language
    \o <<".\n    Tone: ">> \o st.tone
    \o <<PlatformMark>> \o DictGet(st, "platform", <<"Any">>)
    \o <<"\n    \n    Make it engaging, conversational, and appropriate for the platform.\n    Include timing cues and natural pauses.\n    Ensure it fits within ">>
    \o IntToStr(st.duration)
    \o <<" seconds when spoken at normal pace.\n    ">>

hashtag_prompt(st) ==
    <<"\n    Based on this script: ">> \o st.final_script
    \o <<"\n    \n    Generate:\n    1. 8-10 relevant hashtags for ">>
    \o DictGet(st, "platform", <<"social media">>)
    \o <<"\n    2. A compelling caption/description\n    \n    Topic: ">> \o st.topic
    \o <<PlatformMark>> \o DictGet(st, "platform", <<"Any">>)
    \o <<"\n    Language: ">> \o st.language
    \o <<"\n    \n    Make hashtags trending and platform-appropriate.\n    ">>

\* try: ... except Exception as e: ... of create_outline_node
create_outline_node(st, o) ==
    LET r == call_groq_api(o) IN
    IF r.raised THEN [st EXCEPT !.error = <<"Error creating outline: ">> \o r.value]
    ELSE [st EXCEPT !.script_outline = r.value]

generate_script_node(st, o) ==
    LET r == call_groq_api(o) IN
    IF r.raised THEN [st EXCEPT !.error = <<"Error generating script: ">> \o r.value]
    ELSE [st EXCEPT !.final_script = r.value]

generate_hashtags_node_misfiled(st, o) ==
    LET r == call_groq_api(o) IN
    IF r.raised THEN [st EXCEPT !.error = <<"Error generating hashtags: ">> \o r.value]
    ELSE [st EXCEPT !.final_script = r.value]

generate_hashtags_node(st, o) ==
    LET r == call_groq_api(o) IN
    IF r.raised THEN [st EXCEPT !.error = <<"Error generating hashtags: ">> \o r.value]
    ELSE [st EXCEPT !.hashtags = r.value]

NeverSkip(st) == FALSE

\* if state.get("error"): return state
SkipNode(st) == Truthy(DictGet(st, "error", <<>>))

----------------------------------------------------------------------------
(* generate_script: the record it builds and the string it returns *)

ScriptState(t, d, tn, p, l) ==
    [topic |-> t, duration |-> d, tone |-> tn, platform |-> p, language |-> l,
     script_outline |-> <<>>, final_script |-> <<>>, hashtags |-> <<>>,
     error |-> <<>>]

ErrorMark == "X "
OutlineHeading == "## Script Outline"
ScriptHeading == "## Final Script"
HashtagsHeading == "## Hashtags & Caption"
Headings == {OutlineHeading, ScriptHeading, HashtagsHeading}

FormatResultSwapped(result) ==
    IF Truthy(DictGet(result, "error", <<>>)) THEN <<ErrorMark>> \o result.error
    ELSE Strip(<<"\n", ScriptHeading, "\n">>
               \o DictGet(result, "final_script", <<"No script generated">>)
               \o <<"\n", "\n", OutlineHeading, "\n">>
               \o DictGet(result, "script_outline", <<"No outline generated">>)
               \o <<"\n", "\n", HashtagsHeading, "\n">>
               \o DictGet(result, "hashtags", <<"No hashtags generated">>)
               \o <<"\n", " ", " ", " ", " ", " ", " ", " ", " ">>)

\* lines 160-175: the error line, or the three sections, stripped.  The
\* handler of lines 177-178 is not entered: every node catches Exception
\* itself, so app.invoke raises nothing the nodes produce.
FormatResult(result) ==
    IF Truthy(DictGet(result, "error", <<>>)) THEN <<ErrorMark>> \o result.error
    ELSE Strip(<<"\n", OutlineHeading, "\n">>
               \o DictGet(result, "script_outline", <<"No outline generated">>)
               \o <<"\n", "\n", ScriptHeading, "\n">>
               \o DictGet(result, "final_script", <<"No script generated">>)
               \o <<"\n", "\n", HashtagsHeading, "\n">>
               \o DictGet(result, "hashtags", <<"No hashtags generated">>)
               \o <<"\n", " ", " ", " ", " ", " ", " ", " ", " ">>)

----------------------------------------------------------------------------
(* The script run *)

NoState == <<>>
Event(e, k, v) == [ev |-> e, step |-> k, value |-> v]
Element(k, t) == [kind |-> k, text |-> t]

\* lines 204-205, which end every script run
Footer == <<Element("markdown", <<"---">>), Element("caption", <<"Made by Gagan Verma">>)>>

SpinnerText == <<"Creating script outline...">>

\* the first script run, with nothing submitted, has drawn the page
Init ==
    /\ GROQ_API_KEY \in KeyInputs
    /\ pc = "form"
    /\ topic = <<>> /\ duration = 60 /\ tone = <<"Friendly">>
    /\ platform = <<>> /\ language = <<"English">>
    /\ state = NoState
    /\ requests = <<>>
    /\ trace = <<>>
    /\ responses = <<>>
    /\ script = <<>>
    /\ ui = Footer

BlankTopicNoStrip(t) == ~Truthy(t)

\* not topic.strip()
BlankTopic(t) == ~Truthy(Strip(t))

\* the form is submitted and the script runs again: lines 193-198 up to
\* the entry of the graph, or lines 193-195 and 204-205 for a blank topic
Submit ==
    /\ pc = "form"
    /\ \E t \in TopicInputs, f \in FormInputs :
          /\ f.duration \in MinDuration..MaxDuration
          /\ f.tone \in TONES /\ f.platform \in PLATFORMS /\ f.language \in LANGUAGES
          /\ topic' = t /\ duration' = f.duration /\ tone' = f.tone
          /\ platform' = f.platform /\ language' = f.language
          /\ IF BlankTopic(t)
             THEN /\ ui' = <<Element("error", <<"Please enter a topic!">>)>> \o Footer
                  /\ pc' = "done"
                  /\ state' = state
             ELSE /\ ui' = <<Element("spinner", SpinnerText)>>
                  /\ pc' = "create_outline"
                  /\ state' = ScriptState(t, f.duration, f.tone, f.platform, f.language)
    /\ UNCHANGED <<GROQ_API_KEY, requests, trace, responses, script>>

\* a node posts its request and blocks
Call(k, prompt, wait) ==
    /\ requests' = Append(requests, BuildRequest(prompt))
    /\ trace' = Append(trace, Event("call", k, prompt))
    /\ pc' = wait
    /\ UNCHANGED <<GROQ_API_KEY, topic, duration, tone, platform, language,
                   state, responses, script, ui>>

\* the blocked call returns or raises
Return(k, o, st, next) ==
    /\ state' = st
    /\ trace' = Append(trace, IF call_groq_api(o).raised
                              THEN Event("raise", k, call_groq_api(o).value)
                              ELSE Event("return", k, call_groq_api(o).value))
    /\ responses' = Append(responses, o)
    /\ pc' = next
    /\ UNCHANGED <<GROQ_API_KEY, topic, duration, tone, platform, language,
                   requests, script, ui>>

Skip(next) ==
    /\ pc' = next
    /\ UNCHANGED <<GROQ_API_KEY, topic, duration, tone, platform, language,
                   state, requests, trace, responses, script, ui>>

create_outline_call ==
    /\ pc = "create_outline"
    /\ Call(1, outline_prompt(state), "create_outline_wait")

create_outline_return_retry ==
    /\ pc = "create_outline_wait"
    /\ \E o \in Outcomes(1) :
          Return(1, o, create_outline_node(state, o),
                 IF call_groq_api(o).raised THEN "create_outline" ELSE "generate_script")

create_outline_return ==
    /\ pc = "create_outline_wait"
    /\ \E o \in Outcomes(1) : Return(1, o, create_outline_node(state, o), "generate_script")

generate_script_skip ==
    /\ pc = "generate_script"
    /\ SkipNode(state)
    /\ Skip("generate_hashtags")

generate_script_call ==
    /\ pc = "generate_script"
    /\ ~SkipNode(state)
    /\ Call(2, script_prompt(state), "generate_script_wait")

generate_script_return ==
    /\ pc = "generate_script_wait"
    /\ \E o \in Outcomes(2) : Return(2, o, generate_script_node(state, o), "generate_hashtags")

generate_hashtags_skip ==
    /\ pc = "generate_hashtags"
    /\ SkipNode(state)
    /\ Skip("END")

generate_hashtags_call ==
    /\ pc = "generate_hashtags"
    /\ ~SkipNode(state)
    /\ Call(3, hashtag_prompt(state), "generate_hashtags_wait")

generate_hashtags_return ==
    /\ pc = "generate_hashtags_wait"
    /\ \E o \in Outcomes(3) : Return(3, o, generate_hashtags_node(state, o), "END")

DisplayOnlyOnSuccess ==
    /\ pc = "END"
    /\ script' = FormatResult(state)
    /\ ui' = ui \o <<Element("spinner_end", SpinnerText),
                     Element("subheader", <<"Generated Content">>),
                     Element("markdown", FormatResult(state))>>
               \o (IF Truthy(state.error) THEN <<>>
                   ELSE <<Element("success", <<"Script generated! Copy and use it for your next post.">>)>>)
               \o Footer
    /\ pc' = "done"
    /\ UNCHANGED <<GROQ_API_KEY, topic, duration, tone, platform, language,
                   state, requests, trace, responses>>

\* app.invoke has returned: generate_script formats the result, the
\* spinner ends, the page shows the result and the script run ends
\* (lines 160-175 and 197-205)
Display ==
    /\ pc = "END"
    /\ script' = FormatResult(state)
    /\ ui' = ui \o <<Element("spinner_end", SpinnerText),
                     Element("subheader", <<"Generated Content">>),
                     Element("markdown", FormatResult(state)),
                     Element("success", <<"Script generated! Copy and use it for your next post.">>)>>
               \o Footer
    /\ pc' = "done"
    /\ UNCHANGED <<GROQ_API_KEY, topic, duration, tone, platform, language,
                   state, requests, trace, responses>>

Next ==
    \/ Submit
    \/ create_outline_call
    \/ create_outline_return
    \/ generate_script_skip
    \/ generate_script_call
    \/ generate_script_return
    \/ generate_hashtags_skip
    \/ generate_hashtags_call
    \/ generate_hashtags_return
    \/ Display

Spec == Init /\ [][Next]_vars

----------------------------------------------------------------------------
(* Vocabulary of the properties *)

\* the submitted topic has no character other than whitespace
IsBlank(t) == \A i \in DOMAIN t : t[i] \in Whitespace

\* a topic was accepted and the graph was entered
Started == pc # "form" /\ ~IsBlank(topic)

\* app.invoke has returned
RunComplete == Started /\ pc \in {"END", "done"}

Field(k) == CASE k = 1 -> state.script_outline
              [] k = 2 -> state.final_script
              [] k = 3 -> state.hashtags

ErrorPrefix(k) == CASE k = 1 -> "Error creating outline: "
                    [] k = 2 -> "Error generating script: "
                    [] k = 3 -> "Error generating hashtags: "

NodePc(k) == CASE k = 1 -> "create_outline"
               [] k = 2 -> "generate_script"
               [] k = 3 -> "generate_hashtags"
               [] k = 4 -> "END"

Answered(k) == Len(responses) >= k
RaisedAt(k) == Answered(k) /\ responses[k].kind = "fault"
ReturnedAt(k) == Answered(k) /\ responses[k].kind = "http"
SentinelAt(k) == ReturnedAt(k) /\ responses[k].status = 401
Sentinel401(k) == <<"Error:", " ", "4", "0", "1", " ", "-", " ">> \o responses[k].text
NumCalls == Cardinality({i \in DOMAIN trace : trace[i].ev = "call"})
AllPopulated == \A k \in 1..3 : Field(k) # <<>>

\* the value the k-th call handed back to its node
ReturnValue(k) == trace[2 * k].value

----------------------------------------------------------------------------
(* C1 as stated: when a topic was accepted and each of the three calls     *)
(* succeeded (a 200 whose text is returned, nothing raised), the finished  *)
(* run has script_outline, final_script and hashtags all non-empty and     *)
(* error empty.                                                            *)
C1_Original ==
    (RunComplete /\ \A k \in 1..3 : ReturnedAt(k) /\ responses[k].status = 200)
        => (AllPopulated /\ state.error = <<>>)

(* C1 amended: the same, when in addition the text of each of the three    *)
(* responses has a character that is not whitespace.                       *)
C1_SuccessPopulatesAll ==
    (RunComplete /\ \A k \in 1..3 : /\ ReturnedAt(k) /\ responses[k].status = 200
                                     /\ ~IsBlank(responses[k].text))
        => (AllPopulated /\ state.error = <<>>)

C1_Witness ==
    /\ pc = "done" /\ Started
    /\ \A k \in 1..3 : ReturnedAt(k) /\ responses[k].status = 200
    /\ state.script_outline = <<"x">>
    /\ state.final_script = <<"x", "x">>
    /\ state.hashtags = <<"x">>
    /\ state.error = <<>>

(* C2: when the call of step k raises after the earlier calls returned,    *)
(* the finished run has error = the step's prefix followed by the fault's  *)
(* text (so non-empty), the fields of step k and of later steps empty, the *)
(* fields of earlier steps equal to the text returned for them, and        *)
(* exactly k requests sent; and once error is set no step changes the      *)
(* record, sends a request or receives a response.                         *)
C2_AtCompletion ==
    \A k \in 1..3 :
        (RunComplete /\ RaisedAt(k)) =>
            /\ state.error = <<ErrorPrefix(k)>> \o responses[k].text
            /\ state.error # <<>>
            /\ \A j \in k..3 : Field(j) = <<>>
            /\ \A j \in 1..(k - 1) : ReturnedAt(j) /\ Field(j) = ReturnValue(j)
            /\ Len(requests) = k /\ NumCalls = k /\ Len(responses) = k

C2_AfterFault ==
    (Started /\ state.error # <<>>) =>
        (state' = state /\ requests' = requests /\ responses' = responses
         /\ trace' = trace)

C2_FaultStopsPipeline == [](C2_AtCompletion) /\ [][C2_AfterFault]_vars

C2_Witness ==
    /\ pc = "done" /\ Started
    /\ RaisedAt(2)
    /\ state.script_outline = <<"x">>
    /\ state.final_script = <<>> /\ state.hashtags = <<>>
    /\ state.error = <<"Error generating script: ", "timeout">>
    /\ Len(requests) = 2

(* C3: when step k (1 or 2) gets a non-200 response, its field holds       *)
(* "Error: 401 - <body>" untrimmed, error is still empty when the step     *)
(* ends, and step k+1 sends a request whose prompt contains that string    *)
(* verbatim.                                                               *)
C3_SentinelPassesThrough ==
    \A k \in 1..2 :
        (Started /\ SentinelAt(k)) =>
            /\ Field(k) = Sentinel401(k)
            /\ (Len(responses) = k => state.error = <<>>)
            /\ (pc = NodePc(k + 1) => Len(requests) = k)
            /\ (pc # NodePc(k + 1) =>
                    /\ Len(requests) >= k + 1
                    /\ trace[2 * k + 1].ev = "call" /\ trace[2 * k + 1].step = k + 1
                    /\ Contains(requests[k + 1].user, Sentinel401(k)))

C3_Witness ==
    /\ Started /\ SentinelAt(1) /\ SentinelAt(2)
    /\ Len(requests) = 3
    /\ state.script_outline = <<"Error:", " ", "4", "0", "1", " ", "-", " ", "b", " ">>
    /\ Contains(requests[2].user, <<"Error:", " ", "4", "0", "1", " ", "-", " ", "b", " ">>)
    /\ Contains(requests[3].user, <<"Error:", " ", "4", "0", "1", " ", "-", " ", "b", " ">>)
    /\ state.error = <<>>

(* C4: once a topic made only of whitespace (or empty) is submitted, the   *)
(* page shows exactly the validation message, the run is over, and no      *)
(* request has been sent and no call made.                                 *)
C4_BlankTopicRejected ==
    (pc # "form" /\ IsBlank(topic)) =>
        /\ pc = "done"
        /\ ui = <<Element("error", <<"Please enter a topic!">>),
                  Element("markdown", <<"---">>),
                  Element("caption", <<"Made by Gagan Verma">>)>>
        /\ requests = <<>> /\ trace = <<>> /\ responses = <<>>

C4_Witness ==
    /\ pc = "done" /\ topic = <<"U+3000">>
    /\ ui[1] = Element("error", <<"Please enter a topic!">>)
    /\ requests = <<>>

(* C5 as stated: at completion exactly one of (a) all three content fields *)
(* non-empty and error empty, (b) error non-empty with any subset of the   *)
(* content fields empty.                                                   *)
C5_Original ==
    RunComplete =>
        LET a == AllPopulated /\ state.error = <<>>
            b == state.error # <<>>
        IN  (a /\ ~b) \/ (b /\ ~a)

(* C5 amended: at completion exactly one of (a) error is empty and each    *)
(* content field is non-empty unless its call was a 200 whose text is all  *)
(* whitespace, in which case it is empty, (b) error non-empty with any     *)
(* subset of the content fields empty.                                     *)
C5_BlankReturn(k) ==
    ReturnedAt(k) /\ responses[k].status = 200 /\ IsBlank(responses[k].text)

C5_ExactlyOneOutcome ==
    RunComplete =>
        LET a == /\ state.error = <<>>
                 /\ \A k \in 1..3 : (Field(k) = <<>>) <=> C5_BlankReturn(k)
            b == state.error # <<>>
        IN  (a /\ ~b) \/ (b /\ ~a)

C5_Witness ==
    /\ pc = "done" /\ Started
    /\ state.error = <<>>
    /\ responses[2].status = 200 /\ responses[2].text = <<"U+3000", "U+2028">>
    /\ state.script_outline = <<"x">>
    /\ state.final_script = <<>>
    /\ state.hashtags = <<"x">>

(* C6 as stated: with the credential absent no HTTP request is ever sent.  *)
C6_NoRequestWithoutKey ==
    GROQ_API_KEY.isNone => requests = <<>>

(* C7 as stated: every prompt carries "Any" after "Platform: " when the    *)
(* platform is empty, and the platform itself otherwise.                   *)
C7_PlatformDefaultsToAny ==
    \A i \in DOMAIN requests :
        Contains(requests[i].user,
                 <<PlatformMark>> \o (IF platform = <<>> THEN <<"Any">> ELSE platform))

(* C8: the string generate_script returns is fixed by the final record.    *)
(* With error set it is the error mark followed by the error text and no   *)
(* token of it is a section heading.  Otherwise it is the outline heading, *)
(* the outline, the script heading, the script, the hashtags heading and   *)
(* the hashtags, in that order, with trailing whitespace removed; for the  *)
(* responses "OUTLINE", "SCRIPT", "TAGS" it is one fixed string.           *)
C8_Sections ==
    <<OutlineHeading, "\n">> \o state.script_outline
    \o <<"\n", "\n", ScriptHeading, "\n">> \o state.final_script
    \o <<"\n", "\n", HashtagsHeading, "\n">> \o state.hashtags

C8_RenderedOutput ==
    (pc = "done" /\ Started) =>
        /\ state.error # <<>> =>
              /\ script = <<ErrorMark>> \o state.error
              /\ \A i \in DOMAIN script : script[i] \notin Headings
        /\ state.error = <<>> =>
              /\ Len(script) <= Len(C8_Sections)
              /\ script = SubSeq(C8_Sections, 1, Len(script))
              /\ \A i \in (Len(script) + 1)..Len(C8_Sections) :
                    C8_Sections[i] \in Whitespace
              /\ script[Len(script)] \notin Whitespace
              /\ LET j == 5 + Len(state.script_outline)
                     k == j + 4 + Len(state.final_script)
                 IN  /\ 1 < j /\ j < k /\ k <= Len(script)
                     /\ script[1] = OutlineHeading
                     /\ script[j] = ScriptHeading
                     /\ script[k] = HashtagsHeading
        /\ (\A k \in 1..3 : ReturnedAt(k) /\ responses[k].status = 200
                            /\ responses[k].text = StubText[k]) =>
              script = <<"## Script Outline", "\n", "OUTLINE", "\n", "\n",
                         "## Final Script", "\n", "SCRIPT", "\n", "\n",
                         "## Hashtags & Caption", "\n", "TAGS">>

C8_Witness ==
    /\ pc = "done" /\ Started
    /\ state.error = <<>>
    /\ state.script_outline = <<"OUTLINE">>
    /\ state.final_script = <<"SCRIPT">>
    /\ state.hashtags = <<"TAGS">>
    /\ Len(script) = 13

(* C9: the client's events are call 1, answer 1, call 2, answer 2, call 3, *)
(* answer 3 in that order with nothing after a raise; every call sent one  *)
(* request; a finished run made 3 calls when none raised and k calls when  *)
(* the call of step k raised.                                              *)
C9_LinearChain ==
    /\ Len(trace) <= 6
    /\ \A i \in DOMAIN trace :
          /\ (i % 2 = 1) => (trace[i].ev = "call" /\ trace[i].step = (i + 1) \div 2)
          /\ (i % 2 = 0) => (trace[i].ev \in {"return", "raise"}
                              /\ trace[i].step = i \div 2)
          /\ trace[i].ev = "raise" => i = Len(trace)
    /\ Len(requests) = NumCalls
    /\ Len(responses) = Len(trace) \div 2
    /\ \A i \in DOMAIN requests : requests[i].user = trace[2 * i - 1].value
    /\ RunComplete =>
          /\ (\A k \in 1..3 : ~RaisedAt(k)) => NumCalls = 3
          /\ \A k \in 1..3 : RaisedAt(k) => NumCalls = k

C9_Witness ==
    /\ pc = "done" /\ Started
    /\ NumCalls = 2 /\ RaisedAt(2)
    /\ Len(trace) = 4 /\ trace[4].ev = "raise"

(* C10: when the run is over after an accepted topic the page shows, after *)
(* the spinner, the content heading, the returned string and the success   *)
(* notice, in that order and followed only by the footer, also when error  *)
(* is set; a success notice is on the page only then.                      *)
C10_SuccessNoticeAlways ==
    /\ (pc = "done" /\ Started) =>
          /\ Len(ui) = 7
          /\ ui[1].kind = "spinner" /\ ui[2].kind = "spinner_end"
          /\ ui[3] = Element("subheader", <<"Generated Content">>)
          /\ ui[4] = Element("markdown", script)
          /\ ui[5].kind = "success"
          /\ Head(ui[5].text) = "Script generated! Copy and use it for your next post."
          /\ ui[6] = Element("markdown", <<"---">>)
          /\ ui[7].kind = "caption"
    /\ (\E i \in DOMAIN ui : ui[i].kind = "success") =>
          (pc = "done" /\ Started)

C10_Witness ==
    /\ pc = "done" /\ Started
    /\ state.error # <<>>
    /\ script = <<ErrorMark>> \o state.error
    /\ ui[4].text = script
    /\ ui[5].kind = "success"

====
